---- MODULE Spec2Model ----
(***************************************************************************)
(* Authentication pipeline of the URL-shortener backend: register, login,  *)
(* and the jwtAuthenticate -> authenticate -> refreshTokenFlow middleware  *)
(* chain over the users table, with requests interleaving at their awaits. *)
(***************************************************************************)
EXTENDS Integers, Sequences, FiniteSets, TLC

\* ---------------------------------------------------------------- bounds
\* Last second of the clock (Date.now() / 1000, floored).
MaxTime == 2
\* ACCESS_TOKEN_EXPIRY and REFRESH_TOKEN_EXPIRY of the environment, in seconds.
AccessTTL == 1
RefreshTTL == 2
\* Rows ever inserted into users (ids are 1..MaxUsers, AUTOINCREMENT).
MaxUsers == 2
\* Requests the server receives in one behaviour.
MaxRequests == 4
\* Writes an operator makes to the users table behind the server's back.
MaxOperatorWrites == 1
\* Bytes of a salt (crypto.getRandomValues(new Uint8Array(16)), scaled down).
SaltLen == 2

\* ---------------------------------------------------------------- domains
Slots == {1, 2}
Emails == {"a@b.com", "c@d.com"}
Passwords == {"secret123"}
Attempts == Passwords \cup {"wrong"}
Modes == {"development", "production"}
Salts == {[i \in 1..SaltLen |-> IF i = 1 THEN 10 ELSE 255]}
AccessSecret == "ACCESS_TOKEN_SECRET"
RefreshSecret == "REFRESH_TOKEN_SECRET"

\* An optional value is the empty sequence or a one-element sequence.
None == << >>
Some(x) == << x >>
IsSome(o) == Len(o) = 1
Get(o) == o[1]

VARIABLES
    now,        \* the clock, in whole seconds
    users,      \* the users table: id -> row
    nextId,     \* the AUTOINCREMENT sequence of users.id
    issued,     \* token strings handed to clients in cookies so far
    reqs,       \* the in-flight request of each slot
    received,   \* number of requests received so far
    operated,   \* number of operator writes so far
    rotated,    \* history: refresh tokens presented by a completed refresh
    failed,     \* history: refresh tokens presented by a refresh that failed after its lookup
    superseded, \* history: refresh tokens issued before a later completed login
    probe,      \* a library function called on its own: name, arguments, outcome
    jar         \* the cookies one browser holds: value and expiry of each

vars == << now, users, nextId, issued, reqs, received, operated, rotated, failed, superseded,
           probe, jar >>

\* What a call gives back: a returned value or a thrown error.
Returned(v) == [threw |-> FALSE, value |-> v]
Thrown(m) == [threw |-> TRUE, message |-> m]

\* ---------------------------------------------------------------- password hasher
\* A string is the sequence of its characters; a salt is a sequence of bytes.
HexDigits == << "0", "1", "2", "3", "4", "5", "6", "7",
                "8", "9", "a", "b", "c", "d", "e", "f" >>

\* b.toString(16).padStart(2, "0")
ToHex(b) == << HexDigits[(b \div 16) + 1], HexDigits[(b % 16) + 1] >>

RECURSIVE HexOf(_)
\* Array.from(bytes).map(toHex).join("")
HexOf(bytes) == IF bytes = << >> THEN << >> ELSE ToHex(Head(bytes)) \o HexOf(Tail(bytes))

\* The value of a hex digit, -1 for any other character.
HexVal(c) == IF \E i \in 1..16 : HexDigits[i] = c
             THEN (CHOOSE i \in 1..16 : HexDigits[i] = c) - 1
             ELSE -1

\* parseInt(group, 16) stored into a Uint8Array: the leading hex digits, NaN stored as 0.
ParseByte(group) ==
    IF HexVal(group[1]) < 0 THEN 0
    ELSE IF Len(group) = 1 \/ HexVal(group[2]) < 0 THEN HexVal(group[1])
    ELSE 16 * HexVal(group[1]) + HexVal(group[2])

RECURSIVE split(_, _)
\* String.prototype.split(sep): the parts between the separators.
split(s, sep) ==
    IF s = << >> THEN << << >> >>
    ELSE LET rest == split(Tail(s), sep)
         IN  IF Head(s) = sep THEN << << >> >> \o rest
             ELSE << << Head(s) >> \o rest[1] >> \o Tail(rest)

\* Destructuring [a, b] = parts: a missing element is undefined.
Part(parts, i) == IF i <= Len(parts) THEN Some(parts[i]) ELSE None

RECURSIVE Groups(_)
Groups(s) == IF Len(s) <= 2 THEN << s >>
             ELSE << SubSeq(s, 1, 2) >> \o Groups(SubSeq(s, 3, Len(s)))

\* saltHex.match(/.{1,2}/g): groups of two characters, null on the empty string.
match(s) == IF s = << >> THEN None ELSE Some(Groups(s))

\* PBKDF2 under a salt, exported and hex-encoded: one key per (password, salt),
\* written with characters that are never ":".
DeriveKey(password, salt) == << "pbkdf2", password >> \o HexOf(salt)

\* `${saltHex}:${hashHex}`
hashPassword(password, salt) == HexOf(salt) \o << ":" >> \o DeriveKey(password, salt)

\* Variant: every attempt is accepted.
verifyPasswordAny(storedHash, passwordAttempt) == Returned(TRUE)

\* Variant: the salt part of the two strings is compared, not the hash part.
verifyPasswordWrongPart(storedHash, passwordAttempt) ==
    LET parts == split(storedHash, ":")
        matchResult == match(parts[1])
    IN  IF ~IsSome(matchResult)
        THEN Thrown("Invalid salt format")
        ELSE LET groups == Get(matchResult)
                 salt == [i \in 1..Len(groups) |-> ParseByte(groups[i])]
             IN  Returned(Part(split(hashPassword(passwordAttempt, salt), ":"), 1)
                              = Part(parts, 1))

\* Variant: the salt is not read back from the stored string.
verifyPasswordFixedSalt(storedHash, passwordAttempt) ==
    LET attemptHash == Part(split(hashPassword(passwordAttempt, << 0 >>), ":"), 2)
    IN  Returned(attemptHash = Part(split(storedHash, ":"), 2))

verifyPassword(storedHash, passwordAttempt) ==
    LET parts == split(storedHash, ":")
        saltHex == parts[1]
        originalHash == Part(parts, 2)
        matchResult == match(saltHex)
    IN  IF ~IsSome(matchResult)
        THEN Thrown("Invalid salt format")
        ELSE LET groups == Get(matchResult)
                 salt == [i \in 1..Len(groups) |-> ParseByte(groups[i])]
                 attemptHash == Part(split(hashPassword(passwordAttempt, salt), ":"), 2)
             IN  Returned(attemptHash = originalHash)

\* ---------------------------------------------------------------- token issuer / verifier
\* A signed token is its payload together with the key that signed it:
\* HS256 over the same payload and secret gives the same string.
sign(payload, secret) == [payload |-> payload, secret |-> secret]

\* Variant: the refresh token is signed before exp is moved to the refresh TTL.
generateTokensStaleExp(userId, email, t) ==
    LET payload == [userId |-> userId, email |-> email, nbf |-> t, iat |-> t,
                    exp |-> t + AccessTTL]
    IN  [accessToken  |-> sign(payload, AccessSecret),
         refreshToken |-> sign(payload, RefreshSecret)]

\* Variant: each token is signed with the other channel's secret.
generateTokensSwappedSecrets(userId, email, t) ==
    LET payload == [userId |-> userId, email |-> email, nbf |-> t, iat |-> t,
                    exp |-> t + AccessTTL]
    IN  [accessToken  |-> sign(payload, RefreshSecret),
         refreshToken |-> sign([payload EXCEPT !.exp = t + RefreshTTL], AccessSecret)]

\* Variant: the issue time keeps its milliseconds.
SecondsUnrounded(ms) == ms

\* Math.floor(Date.now() / 1000): the clock reading in whole seconds.
Seconds(ms) == ms \div 1000

generateTokens(userId, email, t) ==
    LET payload == [userId |-> userId, email |-> email, nbf |-> t, iat |-> t,
                    exp |-> t + AccessTTL]
    IN  [accessToken  |-> sign(payload, AccessSecret),
         refreshToken |-> sign([payload EXCEPT !.exp = t + RefreshTTL], RefreshSecret)]

\* Variant: the signature is not checked against the channel's secret.
verifyTokenAnySecret(token, secret, t) ==
    IF /\ IsSome(token)
       /\ ~(Get(token).payload.nbf > t)
       /\ ~(Get(token).payload.exp <= t)
       /\ ~(t < Get(token).payload.iat)
    THEN Some(Get(token).payload)
    ELSE None

\* Variant: the time window of the claims is not checked.
verifyTokenIgnoringExpiry(token, secret, t) ==
    IF IsSome(token) /\ Get(token).secret = secret THEN Some(Get(token).payload) ELSE None

\* Variant: a token is still accepted in the second its exp names.
verifyTokenExpiryInclusive(token, secret, t) ==
    IF /\ IsSome(token)
       /\ DOMAIN Get(token) = {"payload", "secret"}
       /\ Get(token).secret = secret
       /\ ~(Get(token).payload.nbf > t)
       /\ ~(Get(token).payload.exp < t)
    THEN Some(Get(token).payload)
    ELSE None

\* hono's verify: a string that is not header.payload.signature, nbf > now, exp <= now,
\* now < iat and a signature made with another key each throw; else the payload.
verify(token, secret, t) ==
    IF DOMAIN token # {"payload", "secret"} THEN Thrown("JwtTokenInvalid")
    ELSE IF token.payload.nbf > t THEN Thrown("JwtTokenNotBefore")
    ELSE IF token.payload.exp <= t THEN Thrown("JwtTokenExpired")
    ELSE IF t < token.payload.iat THEN Thrown("JwtTokenIssuedAt")
    ELSE IF token.secret # secret THEN Thrown("JwtTokenSignatureMismatched")
    ELSE Returned(token.payload)

\* try { return await verify(token, secret) } catch { return null }
verifyToken(token, secret, t) ==
    IF ~IsSome(token) THEN None
    ELSE LET v == verify(Get(token), secret, t)
         IN  IF v.threw THEN None ELSE Some(v.value)

\* ---------------------------------------------------------------- cookies
\* Variant: each cookie lives as long as the token it carries.
setAuthCookiesOwnTTL(accessToken, refreshToken) ==
    [accessToken  |-> [value |-> accessToken,  maxAge |-> AccessTTL],
     refreshToken |-> [value |-> refreshToken, maxAge |-> RefreshTTL]]

\* setAuthCookies: the two Set-Cookie headers of a response, each with its value and Max-Age.
setAuthCookies(accessToken, refreshToken) ==
    [accessToken  |-> [value |-> accessToken,  maxAge |-> RefreshTTL],
     refreshToken |-> [value |-> refreshToken, maxAge |-> RefreshTTL]]

\* ---------------------------------------------------------------- credential store
\* Variant: the identity is taken on trust, whether or not the row exists.
SelectByIdAlwaysFound(id) ==
    Some([id |-> id, email |-> IF id \in DOMAIN users THEN users[id].email ELSE ""])

\* SELECT id, email FROM users WHERE id = ?
SelectById(id) ==
    IF id \in DOMAIN users THEN Some([id |-> id, email |-> users[id].email]) ELSE None

\* Variant: the lookup forgets the refresh_token condition.
SelectByIdIgnoringToken(id, token) ==
    IF id \in DOMAIN users THEN Some([id |-> id, email |-> users[id].email]) ELSE None

\* SELECT id, email FROM users WHERE id = ? AND refresh_token = ?
SelectByIdAndRefreshToken(id, token) ==
    IF id \in DOMAIN users /\ IsSome(token) /\ users[id].refresh_token = token
    THEN Some([id |-> id, email |-> users[id].email])
    ELSE None

\* SELECT * FROM users WHERE email = ?
SelectByEmail(email) ==
    LET hit == {u \in DOMAIN users : users[u].email = email}
    IN  IF hit = {} THEN None
        ELSE LET u == CHOOSE x \in hit : TRUE
             IN  Some([id |-> u, email |-> users[u].email, password |-> users[u].password])

\* Variant: the statement that stores the refresh token also sets the role.
UpdateRefreshTokenElevating(id, token) ==
    IF id \in DOMAIN users
    THEN [users EXCEPT ![id].refresh_token = Some(token), ![id].role = "admin"]
    ELSE users

\* Variant: the UPDATE has no WHERE clause.
UpdateRefreshTokenAllRows(id, token) ==
    [u \in DOMAIN users |-> [users[u] EXCEPT !.refresh_token = Some(token)]]

\* UPDATE users SET refresh_token = ? WHERE id = ?   (no row: nothing is written)
UpdateRefreshToken(id, token) ==
    IF id \in DOMAIN users
    THEN [users EXCEPT ![id].refresh_token = Some(token)]
    ELSE users

\* Variant: the rotation mints and sets cookies but never persists the new token.
PersistRotationSkipped(id, token) == users

\* refreshTokenFlow's rotation step: the row takes the newly minted refresh token.
PersistRotation(id, token) == UpdateRefreshToken(id, token)

\* ---------------------------------------------------------------- requests
Idle ==
    [kind |-> "idle", pc |-> "idle", cookieA |-> None, cookieR |-> None,
     email |-> "", password |-> "", row |-> None, payload |-> None,
     ctxUser |-> None, dbUser |-> None, minted |-> None,
     status |-> 0, message |-> "", setCookies |-> None, handler |-> FALSE,
     path |-> "none", staleAtStart |-> FALSE, supersededAtStart |-> FALSE,
     goneAtStart |-> FALSE, clearedAtStart |-> FALSE, peer |-> FALSE,
     retry |-> FALSE, again |-> FALSE, nullAtLookup |-> FALSE,
     queried |-> None, body |-> {}]

\* c.json(body, status): the terminal response of the request.
Respond(q, status, message) ==
    [q EXCEPT !.pc = "done", !.status = status, !.message = message]

\* A response that has been sent leaves its slot at the next step of the system.
Sweep == [s \in Slots |-> IF reqs[s].pc = "done" THEN Idle ELSE reqs[s]]

\* A new request is tracked in the first slot that holds no request in flight.
Free(r) ==
    /\ reqs[r].pc \in {"idle", "done"}
    /\ \A s \in Slots : s < r => reqs[s].pc \notin {"idle", "done"}

\* No library function is being called on its own.
NoCall ==
    [fn |-> "none", stage |-> "done", token |-> None, secret |-> "", t |-> 0,
     password |-> "", salt |-> << >>, attempt |-> "", damage |-> "none", stored |-> << >>,
     err |-> [message |-> "", stack |-> ""], mode |-> "", out |-> None,
     userId |-> 0, email |-> "", t2 |-> 0, out2 |-> None]

\* A browser that holds no cookie.
NoJar == [accessToken |-> None, refreshToken |-> None]

Init ==
    /\ now = 0
    /\ users = << >>
    /\ nextId = 1
    /\ issued = {}
    /\ reqs = [r \in Slots |-> Idle]
    /\ received = 0
    /\ operated = 0
    /\ rotated = {}
    /\ failed = {}
    /\ superseded = {}
    /\ probe = NoCall
    /\ jar = NoJar

\* The clock advances by one second.
Tick ==
    /\ now < MaxTime
    /\ now' = now + 1
    /\ reqs' = Sweep
    /\ UNCHANGED << users, nextId, issued, received, operated, rotated, failed, superseded,
                    probe, jar >>

\* The error messages that contain 'UNIQUE constraint failed'.
UniqueViolations == {"UNIQUE constraint failed: users.email",
                     "D1_ERROR: UNIQUE constraint failed: users.email: SQLITE_CONSTRAINT"}

\* Variant: the raw message and the stack are sent in every mode.
onErrorVerbose(err, mode) ==
    IF err.message \in UniqueViolations
    THEN [status |-> 400,
          body |-> [success |-> FALSE, message |-> "Email already in use", stack |-> None]]
    ELSE [status |-> 500,
          body |-> [success |-> FALSE, message |-> err.message, stack |-> Some(err.stack)]]

\* app.onError(err, c): the response made from an exception, under ENV = mode.
onError(err, mode) ==
    IF err.message \in UniqueViolations
    THEN [status |-> 400,
          body |-> [success |-> FALSE, message |-> "Email already in use", stack |-> None]]
    ELSE LET isDev == mode = "development"
         IN  [status |-> 500,
              body |-> [success |-> FALSE,
                        message |-> IF isDev THEN err.message ELSE "Unhandled error",
                        stack |-> IF isDev THEN Some(err.stack) ELSE None]]

\* An exception that left its handler becomes the response of the request.
OnError(q, errMessage, mode) ==
    LET res == onError([message |-> errMessage, stack |-> "stack"], mode)
    IN  Respond(q, res.status, res.body.message)

\* A slot takes a new request.
Begin(r, q) ==
    /\ received < MaxRequests
    /\ received' = received + 1
    /\ reqs' = [Sweep EXCEPT ![r] = q]

\* The request of slot r takes one step.
Step(r, q) ==
    /\ reqs' = [Sweep EXCEPT ![r] = q]
    /\ UNCHANGED received

\* ---------------------------------------------------------------- user handlers
\* A row of users as SELECT * returns it.
Row(db, u) ==
    [id |-> u, email |-> db[u].email, password |-> db[u].password, role |-> db[u].role,
     refresh_token |-> db[u].refresh_token]

\* getProfile: SELECT * FROM users ... WHERE users.id = ?, bound to `const id = 1`.
getProfile(db, user) ==
    LET id == 1
    IN  [status |-> 200, id |-> id, body |-> {Row(db, u) : u \in DOMAIN db \cap {id}}]

\* getAllUsers: select * from users.
getAllUsers(db) ==
    [status |-> 200, body |-> {Row(db, u) : u \in DOMAIN db}]

\* next() at the end of the chain: GET /users/me runs getProfile and its answer is the
\* response of the request.
Handle(q) ==
    LET res == getProfile(users, q.ctxUser)
    IN  Respond([q EXCEPT !.handler = TRUE, !.queried = Some(res.id), !.body = res.body],
                res.status, "")

\* GET /users: no middleware stands before the handler.
GetAllUsers(r) ==
    /\ Free(r)
    /\ LET res == getAllUsers(users)
       IN  Begin(r, Respond([Idle EXCEPT !.kind = "users", !.body = res.body],
                            res.status, ""))
    /\ UNCHANGED << now, users, nextId, issued, operated, rotated, failed, superseded, probe, jar >>

\* ---------------------------------------------------------------- register
\* Variant: the email column carries no UNIQUE constraint.
RegisterWithoutUnique(r, email, password, salt) ==
    /\ Free(r)
    /\ LET q == [Idle EXCEPT !.kind = "register", !.email = email, !.password = password]
       IN  IF email = "" \/ password = ""
           THEN /\ Begin(r, Respond(q, 400, ""))
                /\ UNCHANGED << users, nextId >>
           ELSE /\ nextId <= MaxUsers
                /\ users' = users @@ (nextId :> [email |-> email,
                                                 password |-> hashPassword(password, salt),
                                                 role |-> "user",
                                                 refresh_token |-> None])
                /\ nextId' = nextId + 1
                /\ Begin(r, Respond(q, 201, ""))
    /\ UNCHANGED << now, issued, operated, rotated, failed, superseded, probe, jar >>

\* POST /auth/register
Register(r, email, password, salt) ==
    /\ Free(r)
    /\ LET q == [Idle EXCEPT !.kind = "register", !.email = email, !.password = password]
       IN  IF email = "" \/ password = ""
           THEN /\ Begin(r, Respond(q, 400, ""))
                /\ UNCHANGED << users, nextId >>
           ELSE IF \E u \in DOMAIN users : users[u].email = email
           THEN /\ Begin(r, Respond(q, 500, "UNIQUE constraint failed: users.email"))
                /\ UNCHANGED << users, nextId >>
           ELSE /\ nextId <= MaxUsers
                /\ users' = users @@ (nextId :> [email |-> email,
                                                 password |-> hashPassword(password, salt),
                                                 role |-> "user",
                                                 refresh_token |-> None])
                /\ nextId' = nextId + 1
                /\ Begin(r, Respond(q, 201, ""))
    /\ UNCHANGED << now, issued, operated, rotated, failed, superseded, probe, jar >>

\* POST /auth/register with no body, or one that is not JSON: c.req.json() throws before
\* the handler's checks and outside its try, and the top-level handler answers.
RegisterUnreadable(r, mode) ==
    /\ Free(r)
    /\ Begin(r, OnError([Idle EXCEPT !.kind = "register"],
                        "Unexpected end of JSON input", mode))
    /\ UNCHANGED << now, users, nextId, issued, operated, rotated, failed, superseded, probe, jar >>

\* ---------------------------------------------------------------- login
\* POST /auth/login with no body, or one that is not JSON.
LoginUnreadable(r, mode) ==
    /\ Free(r)
    /\ Begin(r, OnError([Idle EXCEPT !.kind = "login"],
                        "Unexpected end of JSON input", mode))
    /\ UNCHANGED << now, users, nextId, issued, operated, rotated, failed, superseded, probe, jar >>

\* POST /auth/login: body check and SELECT by email.
LoginRequest(r, email, password) ==
    /\ Free(r)
    /\ LET q == [Idle EXCEPT !.kind = "login", !.email = email, !.password = password]
           row == SelectByEmail(email)
       IN  IF email = "" \/ password = ""
           THEN Begin(r, Respond(q, 400, ""))
           ELSE IF ~IsSome(row)
           THEN Begin(r, Respond(q, 404, "User not found"))
           ELSE Begin(r, [q EXCEPT !.pc = "loginVerify", !.row = row])
    /\ UNCHANGED << now, users, nextId, issued, operated, rotated, failed, superseded, probe, jar >>

\* verifyPassword, then generateTokens at the current second.
LoginVerify(r) ==
    /\ reqs[r].pc = "loginVerify"
    /\ LET q == reqs[r]
           user == Get(q.row)
           checked == verifyPassword(user.password, q.password)
       IN  IF checked.threw
           THEN Step(r, Respond(q, 500, checked.message))
           ELSE IF checked.value
           THEN Step(r, [q EXCEPT !.pc = "loginUpdate",
                                  !.minted = Some(generateTokens(user.id, user.email, now))])
           ELSE Step(r, Respond(q, 401, "Invalid password"))
    /\ UNCHANGED << now, users, nextId, issued, operated, rotated, failed, superseded, probe, jar >>

\* The store executes login's UPDATE of refresh_token.
LoginUpdate(r) ==
    /\ reqs[r].pc = "loginUpdate"
    /\ LET q == reqs[r]
           user == Get(q.row)
           pair == Get(q.minted)
       IN  /\ users' = UpdateRefreshToken(user.id, pair.refreshToken)
           /\ Step(r, [q EXCEPT !.pc = "loginRespond"])
    /\ UNCHANGED << now, nextId, issued, operated, rotated, failed, superseded, probe, jar >>

\* Variant: the cookies are set before the UPDATE is awaited, so they are already on the
\* response when the UPDATE fails.
LoginUpdateFailCookiesFirst(r) ==
    /\ reqs[r].pc = "loginUpdate"
    /\ LET pair == Get(reqs[r].minted)
       IN  Step(r, Respond([reqs[r] EXCEPT !.setCookies =
                                Some(setAuthCookies(pair.accessToken, pair.refreshToken))],
                           500, "D1_ERROR"))
    /\ UNCHANGED << now, users, nextId, issued, operated, rotated, failed, superseded, probe, jar >>

\* The UPDATE has returned: setAuthCookies, 202 with the user's id and email.
LoginRespond(r) ==
    /\ reqs[r].pc = "loginRespond"
    /\ LET q == reqs[r]
           user == Get(q.row)
           pair == Get(q.minted)
       IN  /\ issued' = issued \cup {pair.accessToken, pair.refreshToken}
           /\ superseded' = superseded \cup
                  {t \in issued : t.secret = RefreshSecret /\ t.payload.userId = user.id}
           /\ Step(r, Respond([q EXCEPT !.setCookies =
                                           Some(setAuthCookies(pair.accessToken,
                                                               pair.refreshToken)),
                                       !.body = {[id |-> user.id, email |-> user.email]}],
                              202, ""))
    /\ UNCHANGED << now, users, nextId, operated, rotated, failed, probe, jar >>

\* The UPDATE throws: login's own catch answers 500 with the error's message.
LoginUpdateFail(r) ==
    /\ reqs[r].pc = "loginUpdate"
    /\ Step(r, Respond(reqs[r], 500, "D1_ERROR"))
    /\ UNCHANGED << now, users, nextId, issued, operated, rotated, failed, superseded, probe, jar >>

\* ---------------------------------------------------------------- authentication middleware
\* The identity a verified token claims.
Claimed(payload) ==
    IF IsSome(payload)
    THEN Some([id |-> Get(payload).userId, email |-> Get(payload).email])
    ELSE None

\* Variant: the token's claims stay in the context.
ContextUserFromClaims(claimed, dbUser) == claimed

\* The identity authenticate attaches once the store has answered.
ContextUser(claimed, dbUser) == dbUser

RefreshPcs == {"refreshSelect", "refreshMint", "refreshUpdate", "refreshRespond"}

Subjects(a, rt) ==
    {t.payload.userId : t \in {Get(c) : c \in {x \in {a, rt} : IsSome(x)}}}

\* Variant: a failed verification is answered 401 at once, as hono's jwt() does by itself.
jwtAuthenticateStrict(r, a, rt) ==
    /\ Free(r)
    /\ LET payload == verifyToken(a, AccessSecret, now)
           q == [Idle EXCEPT !.kind = "auth", !.pc = "authenticate", !.cookieA = a,
                             !.cookieR = rt, !.ctxUser = Claimed(payload)]
       IN  IF IsSome(payload) THEN Begin(r, q) ELSE Begin(r, Respond(q, 401, "Unauthorized"))
    /\ UNCHANGED << now, users, nextId, issued, operated, rotated, failed, superseded, probe, jar >>

\* A request arrives with its cookies; jwtAuthenticate verifies the access cookie,
\* sets the context user from the claims on success, and always calls next().
jwtAuthenticate(r, a, rt) ==
    /\ Free(r)
    /\ LET payload == verifyToken(a, AccessSecret, now)
           subj == Subjects(a, rt)
           q == [Idle EXCEPT
                   !.kind = "auth", !.pc = "authenticate", !.cookieA = a, !.cookieR = rt,
                   !.ctxUser = Claimed(payload),
                   !.staleAtStart = IsSome(rt) /\ Get(rt) \in rotated,
                   !.supersededAtStart = IsSome(rt) /\ Get(rt) \in superseded,
                   !.goneAtStart = subj # {} /\ \A u \in subj : u \notin DOMAIN users,
                   !.clearedAtStart =
                       /\ subj # {}
                       /\ \A u \in subj : u \in DOMAIN users /\ users[u].refresh_token = None,
                   !.retry = IsSome(rt) /\ Get(rt) \in failed]
       IN  Begin(r, q)
    /\ UNCHANGED << now, users, nextId, issued, operated, rotated, failed, superseded, probe, jar >>

\* Variant: a context user set by jwtAuthenticate is trusted without the store.
authenticateTrusting(r) ==
    /\ reqs[r].pc = "authenticate"
    /\ LET q == reqs[r]
       IN  IF IsSome(q.ctxUser)
           THEN Step(r, Respond([q EXCEPT !.path = "stateless", !.handler = TRUE], 200, ""))
           ELSE IF ~IsSome(q.cookieA)
           THEN Step(r, Respond(q, 401, "Authentication required"))
           ELSE Step(r, [q EXCEPT !.pc = "refreshTokenFlow", !.path = "refresh"])
    /\ UNCHANGED << now, users, nextId, issued, operated, rotated, failed, superseded, probe, jar >>

\* Variant: a request without an access cookie is let through to the handler.
authenticateAnonymous(r) ==
    /\ reqs[r].pc = "authenticate"
    /\ LET q == reqs[r]
           claimed == q.ctxUser
           dbUser == IF IsSome(claimed) THEN SelectById(Get(claimed).id) ELSE None
       IN  IF IsSome(claimed)
           THEN IF ~IsSome(dbUser)
                THEN Step(r, Respond([q EXCEPT !.path = "stateless"], 404, "User not found"))
                ELSE Step(r, Respond([q EXCEPT !.path = "stateless", !.dbUser = dbUser,
                                               !.ctxUser = ContextUser(claimed, dbUser),
                                               !.handler = TRUE], 200, ""))
           ELSE IF ~IsSome(q.cookieA)
           THEN Step(r, Respond([q EXCEPT !.handler = TRUE], 200, ""))
           ELSE Step(r, [q EXCEPT !.pc = "refreshTokenFlow", !.path = "refresh"])
    /\ UNCHANGED << now, users, nextId, issued, operated, rotated, failed, superseded, probe, jar >>

\* Variant: a request authenticated by its access token slides the session forward.
authenticateSliding(r) ==
    /\ reqs[r].pc = "authenticate"
    /\ LET q == reqs[r]
           payload == verifyToken(q.cookieA, AccessSecret, now)
           claimed == IF IsSome(q.ctxUser) THEN q.ctxUser ELSE Claimed(payload)
           dbUser == IF IsSome(claimed) THEN SelectById(Get(claimed).id) ELSE None
       IN  IF IsSome(claimed)
           THEN IF ~IsSome(dbUser)
                THEN Step(r, Respond([q EXCEPT !.path = "stateless"], 404, "User not found"))
                ELSE LET pair == generateTokens(Get(dbUser).id, Get(dbUser).email, now)
                     IN  Step(r, Handle([q EXCEPT !.path = "stateless", !.dbUser = dbUser,
                                                  !.ctxUser = ContextUser(claimed, dbUser),
                                                  !.setCookies =
                                                      Some(setAuthCookies(pair.accessToken,
                                                                          pair.refreshToken))]))
           ELSE IF ~IsSome(q.cookieA)
           THEN Step(r, Respond(q, 401, "Authentication required"))
           ELSE Step(r, [q EXCEPT !.pc = "refreshTokenFlow", !.path = "refresh"])
    /\ UNCHANGED << now, users, nextId, issued, operated, rotated, failed, superseded, probe, jar >>

\* authenticate, up to its first store answer or its hand-over to refreshTokenFlow.
authenticate(r) ==
    /\ reqs[r].pc = "authenticate"
    /\ LET q == reqs[r]
           payload == verifyToken(q.cookieA, AccessSecret, now)
           claimed == IF IsSome(q.ctxUser) THEN q.ctxUser ELSE Claimed(payload)
           dbUser == IF IsSome(claimed) THEN SelectById(Get(claimed).id) ELSE None
       IN  IF IsSome(claimed)
           THEN IF ~IsSome(dbUser)
                THEN Step(r, Respond([q EXCEPT !.path = "stateless"], 404, "User not found"))
                ELSE Step(r, Handle([q EXCEPT !.path = "stateless", !.dbUser = dbUser,
                                              !.ctxUser = ContextUser(claimed, dbUser)]))
           ELSE IF ~IsSome(q.cookieA)
           THEN Step(r, Respond(q, 401, "Authentication required"))
           ELSE Step(r, [q EXCEPT !.pc = "refreshTokenFlow", !.path = "refresh"])
    /\ UNCHANGED << now, users, nextId, issued, operated, rotated, failed, superseded, probe, jar >>

\* refreshTokenFlow: read and verify the refresh cookie.
refreshTokenFlow(r) ==
    /\ reqs[r].pc = "refreshTokenFlow"
    /\ LET q == reqs[r]
           payload == verifyToken(q.cookieR, RefreshSecret, now)
       IN  IF ~IsSome(q.cookieR)
           THEN Step(r, Respond(q, 401, "Authentication required"))
           ELSE IF ~IsSome(payload)
           THEN Step(r, Respond(q, 401, "Invalid refresh token"))
           ELSE LET peers == IF IsSome(SelectByIdAndRefreshToken(Get(payload).userId,
                                                                 q.cookieR))
                             THEN {o \in Slots \ {r} : /\ reqs[o].pc \in RefreshPcs
                                                       /\ reqs[o].cookieR = q.cookieR}
                             ELSE {}
                IN  /\ reqs' = [s \in Slots |->
                                  IF s = r THEN [q EXCEPT !.pc = "refreshSelect",
                                                          !.payload = payload,
                                                          !.peer = peers # {}]
                                  ELSE IF s \in peers THEN [reqs[s] EXCEPT !.peer = TRUE]
                                  ELSE Sweep[s]]
                    /\ UNCHANGED received
    /\ UNCHANGED << now, users, nextId, issued, operated, rotated, failed, superseded, probe, jar >>

\* Variant: a subject that is no longer in the store is told apart from a stale token.
RefreshSelectDistinguishing(r) ==
    /\ reqs[r].pc = "refreshSelect"
    /\ LET q == reqs[r]
           user == SelectByIdAndRefreshToken(Get(q.payload).userId, q.cookieR)
           isNull == /\ Get(q.payload).userId \in DOMAIN users
                     /\ users[Get(q.payload).userId].refresh_token = None
       IN  IF ~IsSome(SelectById(Get(q.payload).userId))
           THEN Step(r, Respond([q EXCEPT !.nullAtLookup = isNull], 404, "User not found"))
           ELSE IF ~IsSome(user)
           THEN Step(r, Respond([q EXCEPT !.nullAtLookup = isNull], 401,
                                "Invalid refresh token"))
           ELSE Step(r, [q EXCEPT !.pc = "refreshMint", !.dbUser = user,
                                  !.nullAtLookup = isNull])
    /\ UNCHANGED << now, users, nextId, issued, operated, rotated, failed, superseded, probe, jar >>

\* The store looks the credential up by (id, exact refresh token).
RefreshSelect(r) ==
    /\ reqs[r].pc = "refreshSelect"
    /\ LET q == reqs[r]
           user == SelectByIdAndRefreshToken(Get(q.payload).userId, q.cookieR)
           isNull == /\ Get(q.payload).userId \in DOMAIN users
                     /\ users[Get(q.payload).userId].refresh_token = None
       IN  IF ~IsSome(user)
           THEN Step(r, Respond([q EXCEPT !.nullAtLookup = isNull], 401,
                                "Invalid refresh token"))
           ELSE Step(r, [q EXCEPT !.pc = "refreshMint", !.dbUser = user,
                                  !.nullAtLookup = isNull])
    /\ UNCHANGED << now, users, nextId, issued, operated, rotated, failed, superseded, probe, jar >>

\* generateTokens for the row that was found, at the current second.
RefreshMint(r) ==
    /\ reqs[r].pc = "refreshMint"
    /\ LET q == reqs[r]
           user == Get(q.dbUser)
       IN  Step(r, [q EXCEPT !.pc = "refreshUpdate",
                             !.minted = Some(generateTokens(user.id, user.email, now))])
    /\ UNCHANGED << now, users, nextId, issued, operated, rotated, failed, superseded, probe, jar >>

\* generateTokens throws: nothing was written, the top-level handler answers.
RefreshMintFail(r, mode) ==
    /\ reqs[r].pc = "refreshMint"
    /\ Step(r, OnError(reqs[r], "sign failed", mode))
    /\ failed' = failed \cup {Get(reqs[r].cookieR)}
    /\ UNCHANGED << now, users, nextId, issued, operated, rotated, superseded, probe, jar >>

\* The store executes refreshTokenFlow's UPDATE of refresh_token.
RefreshUpdate(r) ==
    /\ reqs[r].pc = "refreshUpdate"
    /\ LET q == reqs[r]
           user == Get(q.dbUser)
           pair == Get(q.minted)
       IN  /\ users' = PersistRotation(user.id, pair.refreshToken)
           /\ Step(r, [q EXCEPT !.pc = "refreshRespond"])
    /\ UNCHANGED << now, nextId, issued, operated, rotated, failed, superseded, probe, jar >>

\* The UPDATE has returned: setAuthCookies, set the context user, next().
RefreshRespond(r) ==
    /\ reqs[r].pc = "refreshRespond"
    /\ LET q == reqs[r]
           pair == Get(q.minted)
       IN  /\ issued' = issued \cup {pair.accessToken, pair.refreshToken}
           /\ rotated' = rotated \cup {Get(q.cookieR)}
           /\ Step(r, Handle([q EXCEPT !.setCookies =
                                           Some(setAuthCookies(pair.accessToken,
                                                               pair.refreshToken)),
                                       !.again = Get(q.cookieR) \in rotated,
                                       !.ctxUser = ContextUser(Claimed(q.payload),
                                                               q.dbUser)]))
    /\ UNCHANGED << now, users, nextId, operated, failed, superseded, probe, jar >>

\* Variant: the row is written although the request then fails.
RefreshUpdateFailAfterWrite(r, mode) ==
    /\ reqs[r].pc = "refreshUpdate"
    /\ users' = PersistRotation(Get(reqs[r].dbUser).id, Get(reqs[r].minted).refreshToken)
    /\ Step(r, OnError(reqs[r], "D1_ERROR", mode))
    /\ failed' = failed \cup {Get(reqs[r].cookieR)}
    /\ UNCHANGED << now, nextId, issued, operated, rotated, superseded, probe, jar >>

\* Variant: a failed UPDATE is retried from the minting step.
RefreshUpdateFailRetrying(r, mode) ==
    /\ reqs[r].pc = "refreshUpdate"
    /\ Step(r, [reqs[r] EXCEPT !.pc = "refreshMint", !.minted = None])
    /\ failed' = failed \cup {Get(reqs[r].cookieR)}
    /\ UNCHANGED << now, users, nextId, issued, operated, rotated, superseded, probe, jar >>

\* The UPDATE throws: no cookie is set, the top-level handler answers.
RefreshUpdateFail(r, mode) ==
    /\ reqs[r].pc = "refreshUpdate"
    /\ Step(r, OnError(reqs[r], "D1_ERROR", mode))
    /\ failed' = failed \cup {Get(reqs[r].cookieR)}
    /\ UNCHANGED << now, users, nextId, issued, operated, rotated, superseded, probe, jar >>

\* ---------------------------------------------------------------- the store's other writers
\* DELETE FROM users WHERE id = ?  (an operator's wrangler d1 execute)
DeleteUser(u) ==
    /\ u \in DOMAIN users
    /\ users' = [x \in DOMAIN users \ {u} |-> users[x]]
    /\ operated < MaxOperatorWrites
    /\ operated' = operated + 1
    /\ reqs' = Sweep
    /\ UNCHANGED << now, nextId, issued, received, rotated, failed, superseded, probe, jar >>

\* UPDATE users SET refresh_token = NULL WHERE id = ?
ClearRefreshToken(u) ==
    /\ u \in DOMAIN users
    /\ IsSome(users[u].refresh_token)
    /\ users' = [users EXCEPT ![u].refresh_token = None]
    /\ operated < MaxOperatorWrites
    /\ operated' = operated + 1
    /\ reqs' = Sweep
    /\ UNCHANGED << now, nextId, issued, received, rotated, failed, superseded, probe, jar >>

\* UPDATE users SET email = ? WHERE id = ?  (email stays UNIQUE)
ChangeEmail(u, email) ==
    /\ u \in DOMAIN users
    /\ \A x \in DOMAIN users : users[x].email # email
    /\ users' = [users EXCEPT ![u].email = email]
    /\ operated < MaxOperatorWrites
    /\ operated' = operated + 1
    /\ reqs' = Sweep
    /\ UNCHANGED << now, nextId, issued, received, rotated, failed, superseded, probe, jar >>

\* ---------------------------------------------------------------- specification
Cookies == {None} \cup {Some(t) : t \in issued}

Next ==
    \/ Tick
    \/ \E r \in Slots, e \in Emails \cup {""}, p \in Passwords \cup {""}, s \in Salts :
           Register(r, e, p, s)
    \/ \E r \in Slots, m \in Modes : RegisterUnreadable(r, m)
    \/ \E r \in Slots, e \in Emails \cup {""}, p \in Attempts \cup {""} :
           LoginRequest(r, e, p)
    \/ \E r \in Slots, m \in Modes : LoginUnreadable(r, m)
    \/ \E r \in Slots : LoginVerify(r)
    \/ \E r \in Slots : LoginUpdate(r)
    \/ \E r \in Slots : LoginUpdateFail(r)
    \/ \E r \in Slots : LoginRespond(r)
    \/ \E r \in Slots : GetAllUsers(r)
    \/ \E r \in Slots, a \in Cookies, rt \in Cookies : jwtAuthenticate(r, a, rt)
    \/ \E r \in Slots : authenticate(r)
    \/ \E r \in Slots : refreshTokenFlow(r)
    \/ \E r \in Slots : RefreshSelect(r)
    \/ \E r \in Slots : RefreshMint(r)
    \/ \E r \in Slots, m \in Modes : RefreshMintFail(r, m)
    \/ \E r \in Slots : RefreshUpdate(r)
    \/ \E r \in Slots, m \in Modes : RefreshUpdateFail(r, m)
    \/ \E r \in Slots : RefreshRespond(r)
    \/ \E u \in DOMAIN users : DeleteUser(u)
    \/ \E u \in DOMAIN users : ClearRefreshToken(u)
    \/ \E u \in DOMAIN users, e \in Emails : ChangeEmail(u, e)

Spec == Init /\ [][Next]_vars

\* ---------------------------------------------------------------- the middleware chain alone
\* The server after one register and one login of the same user in second 0: the row
\* holds the login's refresh token, and the login's response has just been sent.
ChainInit ==
    LET email == "a@b.com"
        salt == CHOOSE x \in Salts : TRUE
        hash == hashPassword("secret123", salt)
        pair == generateTokens(1, email, 0)
        row == [id |-> 1, email |-> email, password |-> hash]
    IN  /\ now = 0
        /\ users = (1 :> [email |-> email, password |-> hash, role |-> "user",
                          refresh_token |-> Some(pair.refreshToken)])
        /\ nextId = 2
        /\ issued = {pair.accessToken, pair.refreshToken}
        /\ reqs = [r \in Slots |->
                     IF r = 1
                     THEN Respond([Idle EXCEPT !.kind = "login", !.email = email,
                                               !.password = "secret123", !.row = Some(row),
                                               !.minted = Some(pair),
                                               !.setCookies =
                                                   Some(setAuthCookies(pair.accessToken,
                                                                       pair.refreshToken)),
                                               !.body = {[id |-> 1, email |-> email]}],
                                  202, "")
                     ELSE Idle]
        /\ received = 2
        /\ operated = 0
        /\ rotated = {}
        /\ failed = {}
        /\ superseded = {}
        /\ probe = NoCall
        /\ jar = NoJar

\* The next step of the request in slot r: the runtime resumes a handler whenever the
\* promise it awaits settles, so a request in flight is not left waiting for ever.
Advance(r) ==
    \/ authenticate(r)
    \/ refreshTokenFlow(r)
    \/ RefreshSelect(r)
    \/ RefreshMint(r)
    \/ \E m \in Modes : RefreshMintFail(r, m)
    \/ RefreshUpdate(r)
    \/ \E m \in Modes : RefreshUpdateFail(r, m)
    \/ RefreshRespond(r)

ChainNext ==
    \/ Tick
    \/ \E r \in Slots, a \in Cookies, rt \in Cookies : jwtAuthenticate(r, a, rt)
    \/ \E r \in Slots : Advance(r)
    \/ \E u \in DOMAIN users : DeleteUser(u)
    \/ \E u \in DOMAIN users : ClearRefreshToken(u)
    \/ \E u \in DOMAIN users, e \in Emails : ChangeEmail(u, e)

Chain == ChainInit /\ [][ChainNext]_vars /\ \A r \in Slots : WF_vars(Advance(r))

\* ---------------------------------------------------------------- the library, called on its own
ProbeBytes == {0, 10, 255}
ProbeSalts == [1..SaltLen -> ProbeBytes]
ProbePasswords == {"secret123", "Secret123", "wrong"}
ProbeTimes == 0..(MaxTime + RefreshTTL)
ProbeModes == Modes \cup {"staging", ""}
ProbeMillis == {0, 1, 999, 1000, 1001, 1999, 2000}
ProbeErrors ==
    {[message |-> m, stack |-> "Error: at handler"] :
        m \in UniqueViolations \cup {"D1_ERROR", "sign failed", "Invalid salt format"}}

\* Tokens a client may send: minted pairs, the same claims signed with a key of the
\* client's own, and a string that is no JWT.
ForgedSecret == "ATTACKER_SECRET"
MalformedToken == [raw |-> "not-a-jwt"]
ProbeTokens ==
    LET pairs == {generateTokens(1, "a@b.com", t0) : t0 \in 0..MaxTime}
        minted == {p.accessToken : p \in pairs} \cup {p.refreshToken : p \in pairs}
    IN  minted \cup {sign(tok.payload, ForgedSecret) : tok \in minted} \cup {MalformedToken}

\* What can happen to a stored hash string behind the server's back.
Damages == {"none", "noSeparator", "emptySalt", "missingHash", "saltOnly", "empty"}

Damage(stored, kind) ==
    LET parts == split(stored, ":")
    IN  CASE kind = "noSeparator" -> parts[1] \o parts[2]
          [] kind = "emptySalt"   -> << ":" >> \o parts[2]
          [] kind = "missingHash" -> parts[1] \o << ":" >>
          [] kind = "saltOnly"    -> parts[1]
          [] kind = "empty"       -> << >>
          [] OTHER                -> stored

CallsInit ==
    /\ now = 0
    /\ users = << >>
    /\ nextId = 1
    /\ issued = {}
    /\ reqs = [r \in Slots |-> Idle]
    /\ received = 0
    /\ operated = 0
    /\ rotated = {}
    /\ failed = {}
    /\ superseded = {}
    /\ \/ \E tok \in ProbeTokens, k \in {AccessSecret, RefreshSecret}, t \in ProbeTimes :
              probe = [NoCall EXCEPT !.fn = "verifyToken", !.stage = "call",
                                     !.token = Some(tok), !.secret = k, !.t = t]
       \/ \E p \in ProbePasswords, salt \in ProbeSalts, a \in ProbePasswords, d \in Damages :
              probe = [NoCall EXCEPT !.fn = "hashPassword", !.stage = "hash",
                                     !.password = p, !.salt = salt, !.attempt = a,
                                     !.damage = d]
       \/ \E e \in ProbeErrors, m \in ProbeModes :
              probe = [NoCall EXCEPT !.fn = "onError", !.stage = "call",
                                     !.err = e, !.mode = m]
       \/ \E u \in 1..MaxUsers, e \in Emails, m1 \in ProbeMillis, m2 \in ProbeMillis :
              probe = [NoCall EXCEPT !.fn = "generateTokens", !.stage = "call",
                                     !.userId = u, !.email = e, !.t = m1, !.t2 = m2]
    /\ jar = NoJar

Server == << now, users, nextId, issued, reqs, received, operated, rotated, failed, superseded >>

CallVerifyToken ==
    /\ probe.fn = "verifyToken" /\ probe.stage = "call"
    /\ probe' = [probe EXCEPT !.stage = "done",
                              !.out = Some(Returned(verifyToken(probe.token, probe.secret,
                                                                probe.t)))]
    /\ UNCHANGED << Server, jar >>

\* register's hashPassword(password): the string that is stored.
CallHashPassword ==
    /\ probe.fn = "hashPassword" /\ probe.stage = "hash"
    /\ probe' = [probe EXCEPT !.stage = IF probe.damage = "none" THEN "verify" ELSE "damage",
                              !.stored = hashPassword(probe.password, probe.salt)]
    /\ UNCHANGED << Server, jar >>

\* The stored string is damaged before it is read back.
DamageStoredHash ==
    /\ probe.fn = "hashPassword" /\ probe.stage = "damage"
    /\ probe' = [probe EXCEPT !.stage = "verify",
                              !.stored = Damage(probe.stored, probe.damage)]
    /\ UNCHANGED << Server, jar >>

\* login's verifyPassword(user.password, password).
CallVerifyPassword ==
    /\ probe.fn = "hashPassword" /\ probe.stage = "verify"
    /\ probe' = [probe EXCEPT !.stage = "done",
                              !.out = Some(verifyPassword(probe.stored, probe.attempt))]
    /\ UNCHANGED << Server, jar >>

CallOnError ==
    /\ probe.fn = "onError" /\ probe.stage = "call"
    /\ probe' = [probe EXCEPT !.stage = "done",
                              !.out = Some(Returned(onError(probe.err, probe.mode)))]
    /\ UNCHANGED << Server, jar >>

\* Two issuances for one credential, each at its own clock reading.
CallGenerateTokens ==
    /\ probe.fn = "generateTokens" /\ probe.stage \in {"call", "again"}
    /\ probe' = IF probe.stage = "call"
                THEN [probe EXCEPT !.stage = "again",
                                   !.out = Some(Returned(generateTokens(probe.userId,
                                                   probe.email, Seconds(probe.t))))]
                ELSE [probe EXCEPT !.stage = "done",
                                   !.out2 = Some(Returned(generateTokens(probe.userId,
                                                    probe.email, Seconds(probe.t2))))]
    /\ UNCHANGED << Server, jar >>

CallsNext ==
    \/ CallGenerateTokens
    \/ CallVerifyToken
    \/ CallHashPassword
    \/ DamageStoredHash
    \/ CallVerifyPassword
    \/ CallOnError

Calls == CallsInit /\ [][CallsNext]_vars

\* ---------------------------------------------------------------- one browser session
\* The cookie a browser sends: one it holds whose Max-Age has not elapsed.
Live(c) == IF IsSome(c) /\ now < Get(c).expires THEN Some(Get(c).value) ELSE None

\* The browser waits for the response before it sends its next request.
Quiet == \A s \in Slots : reqs[s].pc \in {"idle", "done"}

\* The Set-Cookie headers of the response just sent are in the browser.
Delivered ==
    \A s \in Slots :
        (reqs[s].pc = "done" /\ IsSome(reqs[s].setCookies))
            => /\ IsSome(jar.accessToken) /\ IsSome(jar.refreshToken)
               /\ Get(jar.accessToken).value = Get(reqs[s].setCookies).accessToken.value
               /\ Get(jar.refreshToken).value = Get(reqs[s].setCookies).refreshToken.value

\* The browser stores the cookies of a response, each until its Max-Age elapses.
ClientReceive ==
    /\ \E s \in Slots :
           /\ reqs[s].pc = "done" /\ IsSome(reqs[s].setCookies)
           /\ LET c == Get(reqs[s].setCookies)
              IN  jar' = [accessToken  |-> Some([value |-> c.accessToken.value,
                                                 expires |-> now + c.accessToken.maxAge]),
                          refreshToken |-> Some([value |-> c.refreshToken.value,
                                                 expires |-> now + c.refreshToken.maxAge])]
    /\ ~Delivered
    /\ UNCHANGED << Server, probe >>

ClientRegister(r) ==
    /\ Quiet
    /\ \E salt \in Salts : Register(r, "a@b.com", "secret123", salt)

ClientLogin(r) ==
    /\ Quiet
    /\ LoginRequest(r, "a@b.com", "secret123")

\* GET /users/me with the cookies the browser holds.
ClientSend(r) ==
    /\ Quiet
    /\ jwtAuthenticate(r, Live(jar.accessToken), Live(jar.refreshToken))

SessionNext ==
    \/ ClientReceive
    \/ Delivered /\ Tick
    \/ \E r \in Slots : Delivered /\ ClientRegister(r)
    \/ \E r \in Slots : Delivered /\ ClientLogin(r)
    \/ \E r \in Slots : Delivered /\ LoginVerify(r)
    \/ \E r \in Slots : Delivered /\ LoginUpdate(r)
    \/ \E r \in Slots : Delivered /\ LoginUpdateFail(r)
    \/ \E r \in Slots : Delivered /\ LoginRespond(r)
    \/ \E r \in Slots : Delivered /\ ClientSend(r)
    \/ \E r \in Slots : Delivered /\ authenticate(r)
    \/ \E r \in Slots : Delivered /\ refreshTokenFlow(r)
    \/ \E r \in Slots : Delivered /\ RefreshSelect(r)
    \/ \E r \in Slots : Delivered /\ RefreshMint(r)
    \/ \E r \in Slots, m \in Modes : Delivered /\ RefreshMintFail(r, m)
    \/ \E r \in Slots : Delivered /\ RefreshUpdate(r)
    \/ \E r \in Slots, m \in Modes : Delivered /\ RefreshUpdateFail(r, m)
    \/ \E r \in Slots : Delivered /\ RefreshRespond(r)

Session == Init /\ [][SessionNext]_vars

\* ---------------------------------------------------------------- properties
Auth(r) == reqs[r].kind = "auth" /\ reqs[r].pc = "done"

\* The request failed in the server's own machinery (an exception reached app.onError).
Crashed(r) == reqs[r].status = 500

\* C1: a request that reaches refreshTokenFlow with a refresh token that an earlier,
\* completed refresh already presented ends in 401 'Invalid refresh token'.
C1_RefreshRotation ==
    \A r \in Slots :
        (Auth(r) /\ reqs[r].path = "refresh" /\ reqs[r].staleAtStart /\ ~Crashed(r))
            => (reqs[r].status = 401 /\ reqs[r].message = "Invalid refresh token")

\* C2: of two requests in refreshTokenFlow at the same time with the same stored refresh
\* token, only one rotates: none completes a rotation of a token the other already rotated.
C2_ConcurrentRefreshOneWins ==
    \A r \in Slots :
        (Auth(r) /\ reqs[r].path = "refresh" /\ reqs[r].peer)
            => ~(reqs[r].handler /\ reqs[r].again)

\* C3: a request on the stateless path whose access token names a credential that is no
\* longer in the store ends in 404 'User not found' and the handler is not invoked.
C3_IdentityReconfirmation ==
    \A r \in Slots :
        (/\ Auth(r) /\ reqs[r].path = "stateless"
         /\ Get(reqs[r].cookieA).payload.userId \notin DOMAIN users)
            => (/\ reqs[r].status = 404 /\ reqs[r].message = "User not found"
                /\ ~reqs[r].handler)

C3_Witness ==
    \E r \in Slots :
        /\ Auth(r) /\ reqs[r].path = "stateless"
        /\ Get(reqs[r].cookieA).payload.userId \notin DOMAIN users
        /\ IsSome(verifyToken(reqs[r].cookieA, AccessSecret, now))
        /\ reqs[r].status = 404

\* C4: a request without an access-token cookie ends in 401 'Authentication required'
\* only when the refresh-token cookie is absent as well.
C4_NoAccessCookieGoesToRefresh ==
    \A r \in Slots :
        (/\ Auth(r) /\ ~IsSome(reqs[r].cookieA)
         /\ reqs[r].status = 401 /\ reqs[r].message = "Authentication required")
            => ~IsSome(reqs[r].cookieR)

\* C5: a request with an invalid access cookie whose refresh cookie verified and matched
\* the store, and that did not crash, is authenticated: the handler runs with the
\* identity and both cookies carry the minted pair; and the UPDATE of such a request
\* leaves the minted refresh token in the row.
C5_RefreshSucceeds ==
    /\ [](\A r \in Slots :
             (Auth(r) /\ reqs[r].path = "refresh" /\ IsSome(reqs[r].dbUser) /\ ~Crashed(r))
                 => LET q == reqs[r]
                        id == Get(q.dbUser).id
                    IN  /\ q.handler /\ q.status = 200
                        /\ IsSome(q.minted) /\ IsSome(q.setCookies)
                        /\ Get(q.setCookies).accessToken.value = Get(q.minted).accessToken
                        /\ Get(q.setCookies).refreshToken.value = Get(q.minted).refreshToken
                        /\ Get(q.minted).refreshToken.payload.userId = id
                        /\ Get(q.minted).accessToken.payload.userId = id
                        /\ IsSome(q.ctxUser) /\ Get(q.ctxUser).id = id)
    /\ [][\A r \in Slots :
             (/\ reqs[r].pc = "refreshUpdate" /\ reqs'[r].pc = "refreshRespond"
              /\ Get(reqs[r].dbUser).id \in DOMAIN users)
                 => users'[Get(reqs[r].dbUser).id].refresh_token
                        = Some(Get(reqs[r].minted).refreshToken)]_vars

C5_Witness ==
    \E r \in Slots :
        /\ Auth(r) /\ reqs[r].path = "refresh" /\ reqs[r].handler
        /\ Get(reqs[r].cookieA).secret = AccessSecret
        /\ Get(reqs[r].cookieA).payload.exp <= now
        /\ Get(reqs[r].dbUser).id \in DOMAIN users
        /\ users[Get(reqs[r].dbUser).id].refresh_token # reqs[r].cookieR

\* C6: a refresh attempt with a refresh token that was issued before a later, completed
\* login of the same credential ends in 401.
C6_LoginOverwrites ==
    \A r \in Slots :
        (Auth(r) /\ reqs[r].path = "refresh" /\ reqs[r].supersededAtStart /\ ~Crashed(r))
            => reqs[r].status = 401

\* C7: a refresh that fails at the mint or at the UPDATE sets no cookie, does not invoke
\* the handler, and leaves the users table and the issued tokens as they were.
C7_RotationAtomic ==
    [][\A r \in Slots :
          (reqs[r].pc \in {"refreshMint", "refreshUpdate"} /\ reqs'[r].pc = "done"
           /\ reqs'[r].status = 500)
              => (/\ users' = users /\ issued' = issued
                  /\ reqs'[r].setCookies = None /\ ~reqs'[r].handler)]_vars

C7_Witness ==
    \E r \in Slots :
        /\ Auth(r) /\ reqs[r].path = "refresh" /\ reqs[r].retry
        /\ reqs[r].handler /\ reqs[r].setCookies # None

\* C8 as stated: once the credential of the presented tokens is deleted, or its
\* refresh_token is cleared, the next request presenting them is not authenticated.
C8_AlwaysCurrentRevocation ==
    \A r \in Slots :
        (Auth(r) /\ (reqs[r].goneAtStart \/ reqs[r].clearedAtStart)) => ~reqs[r].handler

\* C8 amended: a request for a deleted credential is never authenticated, and no request
\* is authenticated through refreshTokenFlow while the credential's refresh_token is NULL.
C8_RevocationAmended ==
    \A r \in Slots :
        Auth(r) => /\ reqs[r].goneAtStart => ~reqs[r].handler
                   /\ reqs[r].nullAtLookup => ~reqs[r].handler

C8_Witness ==
    \E r \in Slots :
        /\ Auth(r) /\ reqs[r].clearedAtStart /\ reqs[r].nullAtLookup
        /\ reqs[r].status = 401 /\ reqs[r].message = "Invalid refresh token"

\* C9: the handler is invoked only when a store lookup of this request found the row of
\* the identity the presented token claims.
C9_HandlerOnlyAfterLookup ==
    \A r \in Slots :
        (Auth(r) /\ reqs[r].handler)
            => /\ IsSome(reqs[r].dbUser)
               /\ Get(reqs[r].dbUser).id =
                      IF reqs[r].path = "stateless"
                      THEN Get(reqs[r].cookieA).payload.userId
                      ELSE Get(reqs[r].cookieR).payload.userId

C9_Witness ==
    \E r \in Slots :
        /\ Auth(r) /\ reqs[r].handler /\ reqs[r].path = "refresh"
        /\ Get(reqs[r].dbUser).id = Get(reqs[r].cookieR).payload.userId

\* C10: the identity in the context when the handler runs is the {id, email} the store
\* returned during the request, also when the token claims another email.
C10_ContextHoldsStoredIdentity ==
    \A r \in Slots :
        (Auth(r) /\ reqs[r].handler)
            => /\ reqs[r].ctxUser = reqs[r].dbUser
               /\ reqs[r].path = "stateless"
                      => Get(reqs[r].ctxUser).email = users[Get(reqs[r].ctxUser).id].email

C10_Witness ==
    \E r \in Slots :
        /\ Auth(r) /\ reqs[r].handler /\ reqs[r].path = "stateless"
        /\ Get(reqs[r].ctxUser).email # Get(reqs[r].cookieA).payload.email

\* C11: a request with no cookies at all ends, at authenticate, in 401 'Authentication
\* required'; the handler is not invoked, no cookie is set, and the step leaves the users
\* table and the issued tokens as they were.
C11_NoCookies ==
    [][\A r \in Slots :
          (/\ reqs[r].kind = "auth" /\ reqs[r].pc = "authenticate"
           /\ reqs[r].cookieA = None /\ reqs[r].cookieR = None
           /\ reqs'[r].pc # reqs[r].pc)
              => (/\ reqs'[r].pc = "done" /\ reqs'[r].status = 401
                  /\ reqs'[r].message = "Authentication required"
                  /\ ~reqs'[r].handler /\ reqs'[r].setCookies = None
                  /\ users' = users /\ issued' = issued)]_vars

C11_Witness ==
    \E r \in Slots :
        /\ Auth(r) /\ reqs[r].cookieA = None /\ reqs[r].cookieR = None
        /\ reqs[r].status = 401 /\ reqs[r].message = "Authentication required"
        /\ \E u \in DOMAIN users : IsSome(users[u].refresh_token)

\* C12: in refreshTokenFlow, a refresh cookie that fails the signature or time-window
\* verification, or that verifies but is not the stored refresh_token of its subject
\* (another value, NULL, or no row), ends in 401 'Invalid refresh token': no token is
\* minted, the store is not written, no cookie is set and the handler is not invoked.
C12_InvalidRefreshRejected ==
    [][\A r \in Slots :
          LET q == reqs[r]
              tok == Get(q.cookieR)
              unverified == \/ tok.secret # RefreshSecret
                            \/ tok.payload.nbf > now
                            \/ tok.payload.exp <= now
                            \/ now < tok.payload.iat
              unmatched == LET id == Get(q.payload).userId
                           IN  id \notin DOMAIN users \/ users[id].refresh_token # q.cookieR
          IN  (/\ q.kind = "auth" /\ reqs'[r].pc # q.pc
               /\ \/ q.pc = "refreshTokenFlow" /\ IsSome(q.cookieR) /\ unverified
                  \/ q.pc = "refreshSelect" /\ unmatched)
                  => (/\ reqs'[r].pc = "done" /\ reqs'[r].status = 401
                      /\ reqs'[r].message = "Invalid refresh token"
                      /\ reqs'[r].minted = None /\ reqs'[r].setCookies = None
                      /\ ~reqs'[r].handler
                      /\ users' = users /\ issued' = issued)]_vars

C12_Witness ==
    \E r \in Slots :
        /\ Auth(r) /\ reqs[r].path = "refresh"
        /\ reqs[r].status = 401 /\ reqs[r].message = "Invalid refresh token"
        /\ IsSome(verifyToken(reqs[r].cookieR, RefreshSecret, now))
        /\ LET id == Get(reqs[r].cookieR).payload.userId
           IN  /\ id \in DOMAIN users
               /\ IsSome(users[id].refresh_token)
               /\ users[id].refresh_token # reqs[r].cookieR

\* C13: a successful login (202) leaves in the credential's refresh_token a value that
\* differs from the value it replaces and from every refresh token stored for that
\* credential before, whatever the time elapsed since the previous issuance.
C13_LoginStoresNewValue ==
    [][\A r \in Slots :
          (/\ reqs[r].pc = "loginUpdate" /\ reqs'[r].pc = "loginRespond"
           /\ Get(reqs[r].row).id \in DOMAIN users)
              => LET id == Get(reqs[r].row).id
                 IN  /\ users'[id].refresh_token # users[id].refresh_token
                     /\ Get(users'[id].refresh_token) \notin issued]_vars

\* C14: a login for an existing email with a password that does not hash to the stored
\* hash is answered 401 'Invalid password'; no token is minted, no cookie is set, and
\* the users table (the credential's refresh_token included) stays as it was.
C14_WrongPassword ==
    [][\A r \in Slots :
          LET q == reqs[r]
              stored == Get(q.row).password
          IN  (/\ q.kind = "login" /\ q.pc = "loginVerify" /\ reqs'[r].pc # q.pc
               /\ \A s \in Salts : hashPassword(q.password, s) # stored)
                  => (/\ reqs'[r].pc = "done" /\ reqs'[r].status = 401
                      /\ reqs'[r].message = "Invalid password"
                      /\ reqs'[r].minted = None /\ reqs'[r].setCookies = None
                      /\ users' = users /\ issued' = issued)]_vars

C14_Witness ==
    \E r \in Slots :
        /\ reqs[r].kind = "login" /\ reqs[r].pc = "done"
        /\ reqs[r].status = 401 /\ reqs[r].message = "Invalid password"
        /\ Get(reqs[r].row).id \in DOMAIN users
        /\ IsSome(users[Get(reqs[r].row).id].refresh_token)

\* C15: a registration of an email that already has a credential is answered
\* 400 'Email already in use' and leaves the users table unchanged.
C15_DuplicateEmailRewritten ==
    [][\A r \in Slots :
          (/\ received' = received + 1
           /\ reqs'[r].kind = "register" /\ reqs'[r].pc = "done"
           /\ \E u \in DOMAIN users : users[u].email = reqs'[r].email)
              => (/\ reqs'[r].status = 400
                  /\ reqs'[r].message = "Email already in use"
                  /\ users' = users)]_vars

\* C16: for the same submitted password, a login for an email with no credential and a
\* login for an existing email with a non-matching password get the same status and
\* the same message.
C16_LoginDoesNotLeakExistence ==
    [][\A r, s \in Slots :
          LET old == reqs[s]
              new == reqs'[r]
              Rejected(q) == /\ q.kind = "login" /\ q.pc = "done"
                             /\ q.email # "" /\ q.password # ""
                             /\ q.status \in {401, 404}
          IN  (/\ Rejected(old) /\ Rejected(new)
               /\ reqs[r].pc # "done" \/ received' = received + 1
               /\ old.password = new.password
               /\ IsSome(old.row) # IsSome(new.row))
                  => (new.status = old.status /\ new.message = old.message)]_vars

\* C17: a request that presents an access token in the refresh-token cookie, with an
\* absent or invalid access cookie, never gets past the verification of refreshTokenFlow:
\* it reaches no store lookup, mints nothing, and ends unauthenticated in 401.
C17_AccessTokenNotReplayableAsRefresh ==
    \A r \in Slots :
        (/\ reqs[r].kind = "auth" /\ reqs[r].path # "stateless"
         /\ IsSome(reqs[r].cookieR) /\ Get(reqs[r].cookieR).secret = AccessSecret)
            => (/\ reqs[r].pc \notin RefreshPcs
                /\ reqs[r].minted = None /\ reqs[r].setCookies = None
                /\ ~reqs[r].handler
                /\ (reqs[r].pc = "done" => reqs[r].status = 401))

C17_Witness ==
    \E r \in Slots :
        /\ Auth(r) /\ reqs[r].path = "refresh"
        /\ IsSome(reqs[r].cookieR) /\ Get(reqs[r].cookieR).secret = AccessSecret
        /\ IsSome(verifyToken(reqs[r].cookieR, AccessSecret, now))
        /\ reqs[r].status = 401 /\ reqs[r].message = "Invalid refresh token"

\* C18: whenever the two TTLs differ, the access-token cookie set by setAuthCookies has
\* Max-Age ACCESS_TOKEN_EXPIRY and the refresh-token cookie Max-Age REFRESH_TOKEN_EXPIRY.
C18_CookieMaxAgeOwnTTL ==
    \A r \in Slots :
        (IsSome(reqs[r].setCookies) /\ AccessTTL # RefreshTTL)
            => /\ Get(reqs[r].setCookies).accessToken.maxAge = AccessTTL
               /\ Get(reqs[r].setCookies).refreshToken.maxAge = RefreshTTL

\* C19: the two tokens of every minted pair carry the same userId, email, iat and nbf;
\* they differ only in exp (iat + access TTL against iat + refresh TTL) and in the
\* secret that signed them.
C19_PairSharesClaims ==
    \A r \in Slots :
        IsSome(reqs[r].minted)
            => LET a == Get(reqs[r].minted).accessToken
                   b == Get(reqs[r].minted).refreshToken
               IN  /\ a.payload.userId = b.payload.userId
                   /\ a.payload.email = b.payload.email
                   /\ a.payload.iat = b.payload.iat
                   /\ a.payload.nbf = b.payload.nbf
                   /\ a.payload.nbf = a.payload.iat
                   /\ [a.payload EXCEPT !.exp = b.payload.exp] = b.payload
                   /\ a.payload.exp = a.payload.iat + AccessTTL
                   /\ b.payload.exp = b.payload.iat + RefreshTTL
                   /\ a.secret = AccessSecret /\ b.secret = RefreshSecret

C19_Witness ==
    \E r \in Slots :
        /\ Auth(r) /\ reqs[r].handler /\ IsSome(reqs[r].minted)
        /\ Get(reqs[r].minted).accessToken.payload.iat > 0
        /\ Get(reqs[r].minted).accessToken.payload.exp
               # Get(reqs[r].minted).refreshToken.payload.exp

\* C20: the access token of a freshly minted pair verifies under ACCESS_TOKEN_SECRET to
\* claims with the userId and email given to generateTokens, and verifies to null under
\* REFRESH_TOKEN_SECRET.
C20_RoundTripAndSecretIsolation ==
    \A r \in Slots :
        IsSome(reqs[r].minted)
            => LET tok == Get(reqs[r].minted).accessToken
                   t == tok.payload.iat
                   user == IF reqs[r].kind = "login" THEN Get(reqs[r].row)
                                                     ELSE Get(reqs[r].dbUser)
                   claims == verifyToken(Some(tok), AccessSecret, t)
               IN  /\ IsSome(claims)
                   /\ Get(claims).userId = user.id
                   /\ Get(claims).email = user.email
                   /\ verifyToken(Some(tok), RefreshSecret, t) = None

C20_Witness ==
    \E r \in Slots :
        /\ reqs[r].kind = "login" /\ reqs[r].pc = "loginUpdate"
        /\ IsSome(reqs[r].minted)
        /\ Get(reqs[r].minted).accessToken.payload.iat = now
        /\ IsSome(verifyToken(Some(Get(reqs[r].minted).accessToken), AccessSecret, now))
        /\ verifyToken(Some(Get(reqs[r].minted).accessToken), RefreshSecret, now) = None

\* C21: verifyToken returns the claims exactly when the token is well formed, signed
\* with the given secret and nbf <= now < exp; in every other case (verified at or after
\* its exp, signed with another key, malformed, not yet valid) it returns null, and it
\* never throws.
C21_VerifyTokenNullOnFailure ==
    (probe.fn = "verifyToken" /\ probe.stage = "done")
        => LET tok == Get(probe.token)
               out == Get(probe.out)
               good == /\ DOMAIN tok = {"payload", "secret"}
                       /\ tok.secret = probe.secret
                       /\ tok.payload.nbf <= probe.t
                       /\ probe.t < tok.payload.exp
           IN  /\ ~out.threw
               /\ good => out.value = Some(tok.payload)
               /\ ~good => out.value = None

C21_Witness ==
    /\ probe.fn = "verifyToken" /\ probe.stage = "done"
    /\ Get(probe.token) # MalformedToken
    /\ Get(probe.token).secret = probe.secret
    /\ probe.t = Get(probe.token).payload.exp
    /\ Get(probe.out) = Returned(None)

\* C22: for every password P and every salt, verifyPassword(hashPassword(P), P) is true.
C22_HashRoundTrip ==
    (/\ probe.fn = "hashPassword" /\ probe.stage = "done"
     /\ probe.damage = "none" /\ probe.attempt = probe.password)
        => Get(probe.out) = Returned(TRUE)

C22_Witness ==
    /\ probe.fn = "hashPassword" /\ probe.stage = "done"
    /\ probe.damage = "none" /\ probe.attempt = probe.password
    /\ probe.salt[1] = 10 /\ probe.salt[SaltLen] = 0
    /\ probe.stored = HexOf(probe.salt) \o << ":" >> \o DeriveKey(probe.password, probe.salt)
    /\ Get(probe.out) = Returned(TRUE)

\* C23: for all passwords P and Q with Q different from P,
\* verifyPassword(hashPassword(P), Q) is false.
C23_HashRejection ==
    (/\ probe.fn = "hashPassword" /\ probe.stage = "done"
     /\ probe.damage = "none" /\ probe.attempt # probe.password)
        => Get(probe.out) = Returned(FALSE)

C23_Witness ==
    /\ probe.fn = "hashPassword" /\ probe.stage = "done" /\ probe.damage = "none"
    /\ probe.password = "secret123" /\ probe.attempt = "Secret123"
    /\ Get(probe.out) = Returned(FALSE)

\* C24: on a malformed stored hash string (no ':' separator, empty salt part, missing
\* hash part) verifyPassword returns false and does not throw.
C24_MalformedHashIsFalse ==
    (probe.fn = "hashPassword" /\ probe.stage = "done" /\ probe.damage # "none")
        => Get(probe.out) = Returned(FALSE)

\* C25: a register or login request whose body lacks email or password is answered 400
\* by the handler itself: nothing is minted, no cookie is set, and no exception reaches
\* the top-level handler.
C25_MissingFieldsAnswered400 ==
    \A r \in Slots :
        (/\ reqs[r].kind \in {"register", "login"} /\ reqs[r].pc = "done"
         /\ reqs[r].email = "" \/ reqs[r].password = "")
            => (/\ reqs[r].status = 400
                /\ reqs[r].minted = None /\ reqs[r].setCookies = None)

\* The verified token of a finished request names a subject that the request's lookup
\* did not find in the store.
SubjectGone(r) ==
    /\ Auth(r)
    /\ \/ /\ reqs[r].path = "stateless"
          /\ Get(reqs[r].cookieA).payload.userId \notin DOMAIN users
       \/ /\ reqs[r].path = "refresh" /\ IsSome(reqs[r].payload)
          /\ reqs[r].dbUser = None
          /\ Get(reqs[r].payload).userId \notin DOMAIN users

\* C26 as stated: a request with a validly signed, unexpired token whose subject is no
\* longer in the store ends in 404, on the stateless path and on the refresh path alike.
C26_SubjectGoneIs404 ==
    \A r \in Slots : SubjectGone(r) => reqs[r].status = 404

\* C26 amended: such a request ends in 404 'User not found' on the stateless path and in
\* 401 'Invalid refresh token' on the refresh path; on neither is the handler invoked.
C26_SubjectGoneByPath ==
    \A r \in Slots :
        SubjectGone(r)
            => /\ ~reqs[r].handler /\ reqs[r].setCookies = None
               /\ reqs[r].path = "stateless"
                      => reqs[r].status = 404 /\ reqs[r].message = "User not found"
               /\ reqs[r].path = "refresh"
                      => reqs[r].status = 401 /\ reqs[r].message = "Invalid refresh token"

C26_Witness ==
    \E r \in Slots :
        /\ SubjectGone(r) /\ reqs[r].path = "refresh"
        /\ reqs[r].status = 401 /\ reqs[r].message = "Invalid refresh token"

\* C27: no step of register, login or an authenticated request writes role or password
\* after creation: a row that is created has role 'user' and the hash of the password
\* in the register request, and a row that stays keeps both.
C27_RoleAndPasswordWrittenOnce ==
    [][\A u \in DOMAIN users' :
          IF u \in DOMAIN users
          THEN /\ users'[u].role = users[u].role
               /\ users'[u].password = users[u].password
          ELSE /\ users'[u].role = "user"
               /\ \E r \in Slots, s \in Salts :
                      /\ reqs'[r].kind = "register" /\ reqs'[r].status = 201
                      /\ users'[u].password = hashPassword(reqs'[r].password, s)]_vars

C27_Witness ==
    \E u \in DOMAIN users :
        /\ rotated # {}
        /\ IsSome(users[u].refresh_token)
        /\ users[u].role = "user"
        /\ \E s \in Salts : users[u].password = hashPassword("secret123", s)

\* C28: jwtAuthenticate never answers the request itself: with the access cookie valid,
\* invalid or missing, the request goes on to authenticate, once, with nothing sent; the
\* context user is set only when the cookie verifies, and then to the token's claims.
C28_JwtAuthenticateAlwaysContinues ==
    [][\A r \in Slots :
          (Free(r) /\ received' = received + 1 /\ reqs'[r].kind = "auth")
              => LET q == reqs'[r]
                     ok == /\ IsSome(q.cookieA)
                           /\ Get(q.cookieA).secret = AccessSecret
                           /\ Get(q.cookieA).payload.nbf <= now
                           /\ Get(q.cookieA).payload.iat <= now
                           /\ now < Get(q.cookieA).payload.exp
                 IN  /\ q.pc = "authenticate" /\ q.status = 0
                     /\ ~q.handler /\ q.setCookies = None
                     /\ IsSome(q.ctxUser)
                            => /\ ok
                               /\ Get(q.ctxUser) = [id |-> Get(q.cookieA).payload.userId,
                                                    email |-> Get(q.cookieA).payload.email]]_vars

C28_Witness ==
    \E r \in Slots :
        /\ reqs[r].kind = "auth" /\ reqs[r].pc = "authenticate"
        /\ IsSome(reqs[r].cookieA) /\ reqs[r].ctxUser = None

\* The position of a request in the chain jwtAuthenticate -> authenticate -> refreshTokenFlow.
Rank(pc) ==
    CASE pc = "authenticate"     -> 1
      [] pc = "refreshTokenFlow" -> 2
      [] pc = "refreshSelect"    -> 3
      [] pc = "refreshMint"      -> 4
      [] pc = "refreshUpdate"    -> 5
      [] pc = "refreshRespond"   -> 6
      [] OTHER                   -> 7

InFlight(r) == reqs[r].kind = "auth" /\ reqs[r].pc # "done"

\* C29: every request through jwtAuthenticate -> authenticate ends, and in one outcome:
\* the handler invoked (200), 401, 404, or an error answered by the top-level handler
\* (500). Each step of a request moves it forward in the chain, so no step is repeated
\* and refreshTokenFlow is entered at most once.
C29_RequestsTerminateOnce ==
    /\ [][\A r \in Slots :
             InFlight(r)
                 => /\ reqs'[r].kind = "auth"
                    /\ \/ reqs'[r].pc = reqs[r].pc /\ reqs'[r].status = 0
                       \/ Rank(reqs'[r].pc) > Rank(reqs[r].pc)]_vars
    /\ [](\A r \in Slots :
             Auth(r) => /\ reqs[r].status \in {200, 401, 404, 500}
                        /\ reqs[r].handler <=> reqs[r].status = 200)
    /\ \A r \in Slots : InFlight(r) ~> Auth(r)

C29_Witness ==
    \E r \in Slots :
        /\ Auth(r) /\ reqs[r].path = "refresh" /\ IsSome(reqs[r].minted)
        /\ reqs[r].status = 500 /\ ~reqs[r].handler

\* The top-level handler was called with an error that is no uniqueness violation.
UnexpectedHandled ==
    /\ probe.fn = "onError" /\ probe.stage = "done"
    /\ probe.err.message \notin UniqueViolations

\* C30: the top-level handler answers an error that is not a uniqueness violation with
\* 500; under ENV 'development' the body carries the raw message and the stack, under any
\* other mode only the message 'Unhandled error' and no stack.
C30_UnhandledErrorIs500 ==
    UnexpectedHandled
        => LET res == Get(probe.out).value
           IN  /\ res.status = 500
               /\ res.body.success = FALSE
               /\ probe.mode = "development"
                      => /\ res.body.message = probe.err.message
                         /\ res.body.stack = Some(probe.err.stack)
               /\ probe.mode # "development"
                      => /\ res.body.message = "Unhandled error"
                         /\ res.body.stack = None

C30_Witness ==
    /\ UnexpectedHandled
    /\ probe.mode = "staging"
    /\ Get(probe.out).value.body.message = "Unhandled error"

\* The request of slot r has just completed with new cookies on its response.
Issued(r) ==
    /\ reqs[r].kind \in {"login", "auth"} /\ reqs[r].pc = "done"
    /\ IsSome(reqs[r].setCookies)

\* C31: when a login or a refresh completes successfully, with no write to the store but
\* those of logins and refreshes, the refresh token in its refresh cookie is the
\* refresh_token the store holds for that credential at that moment.
C31_CookieIsStoredToken ==
    \A r \in Slots :
        (Issued(r) /\ operated = 0)
            => LET tok == Get(reqs[r].setCookies).refreshToken.value
               IN  users[tok.payload.userId].refresh_token = Some(tok)

RefreshTokenWritten ==
    /\ operated' = operated
    /\ \E u \in DOMAIN users \cap DOMAIN users' :
           users'[u].refresh_token # users[u].refresh_token

\* C34: the step that authenticates a request on the stateless path leaves the store and
\* the issued tokens as they were and sets no cookie; refresh_token is written only by the
\* UPDATE of a login or of refreshTokenFlow, and cookies are set only on the response of
\* a successful login or of a refresh.
C34_StatelessPathWritesNothing ==
    [][/\ \A r \in Slots :
             (reqs[r].pc = "authenticate" /\ reqs'[r].pc = "done"
              /\ reqs'[r].path = "stateless")
                 => (/\ users' = users /\ issued' = issued
                     /\ reqs'[r].setCookies = None)
       /\ RefreshTokenWritten
              => \E r \in Slots :
                     \/ reqs[r].pc = "loginUpdate" /\ reqs'[r].pc = "loginRespond"
                     \/ reqs[r].pc = "refreshUpdate" /\ reqs'[r].pc = "refreshRespond"
       /\ \A r \in Slots :
              (IsSome(reqs'[r].setCookies) /\ reqs[r].pc # "done")
                  => \/ reqs[r].pc = "loginRespond" /\ reqs'[r].status = 202
                     \/ reqs[r].pc = "refreshRespond" /\ reqs'[r].path = "refresh"]_vars

C34_Witness ==
    \E r \in Slots :
        /\ Auth(r) /\ reqs[r].path = "stateless" /\ reqs[r].handler
        /\ reqs[r].setCookies = None
        /\ IsSome(reqs[r].cookieR)
        /\ Get(reqs[r].ctxUser).id \in DOMAIN users
        /\ users[Get(reqs[r].ctxUser).id].refresh_token = Some(Get(reqs[r].cookieR))

\* The UPDATE of a login or of a refresh for credential u is executed in this step.
Persists(r, u) ==
    \/ /\ reqs[r].pc = "loginUpdate" /\ reqs'[r].pc = "loginRespond"
       /\ u = Get(reqs[r].row).id
    \/ /\ reqs[r].pc = "refreshUpdate" /\ reqs'[r].pc = "refreshRespond"
       /\ u = Get(reqs[r].dbUser).id

\* C35: the UPDATE of a successful login or refresh for credential U changes U's
\* refresh_token and nothing else: U's email, password hash and role, every field of
\* every other credential, and the set of credentials and their ids stay as they were.
C35_OnlyOwnRefreshTokenChanges ==
    [][\A r \in Slots, u \in 1..MaxUsers :
          Persists(r, u)
              => /\ DOMAIN users' = DOMAIN users /\ nextId' = nextId
                 /\ \A x \in DOMAIN users :
                        /\ users'[x].email = users[x].email
                        /\ users'[x].password = users[x].password
                        /\ users'[x].role = users[x].role
                        /\ x # u => users'[x].refresh_token = users[x].refresh_token
                 /\ u \in DOMAIN users
                        => users'[u].refresh_token = Some(Get(reqs[r].minted).refreshToken)]_vars

C35_Witness ==
    \E r \in Slots, u, x \in DOMAIN users :
        /\ u # x
        /\ reqs[r].kind = "login" /\ reqs[r].pc = "done" /\ reqs[r].status = 202
        /\ Get(reqs[r].row).id = u
        /\ users[u].refresh_token = Some(Get(reqs[r].minted).refreshToken)
        /\ users[x].refresh_token = None

\* C36: no two credentials share an email, every id is below the next id the table will
\* give out, and a register request that is not answered 201 leaves the table as it was.
C36_EmailsAndIdsUnique ==
    /\ [](\A u, x \in DOMAIN users :
             /\ u < nextId
             /\ u # x => users[u].email # users[x].email)
    /\ [][\A r \in Slots :
             (/\ received' = received + 1
              /\ reqs'[r].kind = "register" /\ reqs'[r].pc = "done"
              /\ reqs'[r].status # 201)
                 => (users' = users /\ nextId' = nextId)]_vars

C36_Witness ==
    \E r \in Slots, u, x \in DOMAIN users :
        /\ u # x
        /\ reqs[r].kind = "register" /\ reqs[r].pc = "done" /\ reqs[r].status = 500
        /\ reqs[r].email = users[u].email

\* C37: when login's UPDATE of refresh_token fails, the response is 500, no cookie is
\* set, and the table and the issued tokens are as they were; a login response carries
\* cookies only when it is sent after the UPDATE has returned.
C37_LoginUpdateFailure ==
    [][\A r \in Slots :
          /\ (reqs[r].pc = "loginUpdate" /\ reqs'[r].pc = "done")
                 => (/\ reqs'[r].status = 500 /\ reqs'[r].setCookies = None
                     /\ users' = users /\ issued' = issued)
          /\ (reqs'[r].kind = "login" /\ IsSome(reqs'[r].setCookies)
               /\ reqs[r].pc # "done")
                 => (reqs[r].pc = "loginRespond" /\ reqs'[r].status = 202)]_vars

C37_Witness ==
    \E r \in Slots :
        /\ reqs[r].kind = "login" /\ reqs[r].pc = "done" /\ reqs[r].status = 500
        /\ IsSome(reqs[r].minted) /\ reqs[r].setCookies = None
        /\ Get(reqs[r].row).id \in DOMAIN users
        /\ users[Get(reqs[r].row).id].refresh_token
               # Some(Get(reqs[r].minted).refreshToken)

\* C33: a browser that sends one request at a time with the cookies of the latest
\* response, dropping each when its Max-Age elapses, is authenticated on every request
\* that completes before the refresh token it sent expires, unless the server fails.
C33_SessionContinuity ==
    \A r \in Slots :
        (/\ Auth(r) /\ ~Crashed(r)
         /\ IsSome(reqs[r].cookieR) /\ now < Get(reqs[r].cookieR).payload.exp)
            => (reqs[r].handler /\ reqs[r].status = 200)

C33_Witness ==
    \E r \in Slots :
        /\ Auth(r) /\ reqs[r].path = "refresh" /\ reqs[r].handler
        /\ IsSome(reqs[r].cookieA) /\ Get(reqs[r].cookieA).payload.exp <= now
        /\ jar.refreshToken # None
        /\ Get(jar.refreshToken).value = Get(reqs[r].cookieR)

\* C38: the id getProfile queries is the id of the identity in the request context.
C38_ProfileOfContextUser ==
    \A r \in Slots :
        (Auth(r) /\ reqs[r].handler)
            => reqs[r].queried = Some(Get(reqs[r].ctxUser).id)

\* C39: no response of an unauthenticated route (register, login, GET /users) carries
\* the password or the refresh_token column of a credential.
C39_NoSecretColumnsDisclosed ==
    \A r \in Slots :
        (reqs[r].kind \in {"register", "login", "users"} /\ reqs[r].pc = "done")
            => \A row \in reqs[r].body :
                   /\ "password" \notin DOMAIN row
                   /\ "refresh_token" \notin DOMAIN row

====
